---- MODULE Spec2Model ----
(***************************************************************************)
(* Model of the bundler: an Open Policy Agent bundle server.               *)
(*   bundle.rs : Bundle::new / Bundle::fetch / Bundle::to_tar_gz           *)
(*   main.rs   : main, fetch_initial_bundle, serve_app, update_bundle,     *)
(*               bundle_endpoint, fallback_endpoint                        *)
(* Byte strings are modelled as sequences of string tokens; the length of  *)
(* a byte string is the number of its tokens.                              *)
(***************************************************************************)
EXTENDS Integers, Sequences, FiniteSets, TLC

(* ------------------------------- state --------------------------------- *)
VARIABLES
    main_pc,          \* where main() is: connect, fetch_initial, spawn, join, exited
    require_token,    \* Cli::require_token
    polling_interval, \* Cli::polling_interval
    current_bundle,   \* the BundleFile inside the RwLock, None before it exists
    writer,           \* whether the write guard of the RwLock is held
    upd_pc,           \* where update_bundle is
    next_fetch,       \* update_bundle's next_fetch
    upd_bundle,       \* update_bundle's `bundle`
    upd_file,         \* update_bundle's `bundle_file`
    serve_pc,         \* where serve_app is
    req,              \* the requests and their handlers
    now,              \* Instant::now()
    d0,               \* the instant update_bundle started
    ticks,            \* the number of ticks started
    tick_start,       \* the instant the latest tick started
    completed,        \* the instant the previous tick completed
    last_fetch        \* the latest Bundle::fetch: provider results, value returned

vars == <<main_pc, require_token, polling_interval, current_bundle, writer,
          upd_pc, next_fetch, upd_bundle, upd_file, serve_pc, req, now, d0,
          ticks, tick_start, completed, last_fetch>>

config == <<require_token, polling_interval>>
updater == <<upd_pc, next_fetch, upd_bundle, upd_file>>
timing == <<d0, ticks, tick_start, completed>>

(* ----------------------------- bounds ---------------------------------- *)
NumRequests == 1
MaxRows == 1
MaxInterval == 2
MaxTime == 4

Requests == 1..NumRequests
Max(a, b) == IF a >= b THEN a ELSE b

(* ------------------------- results (Result<T, E>) ---------------------- *)
Ok(v) == [ok |-> TRUE, val |-> v]
Err(e) == [ok |-> FALSE, err |-> e]

(* --------------------- permissionables (snapshots) --------------------- *)
\* A relation snapshot: a list of records, each record an id.
RecordIds == {1}
Snapshots == UNION {[1..n -> RecordIds] : n \in 0..MaxRows}

\* What one provider fetch (Proposals::fetch, ...) can return.
ProviderErrors == {"sqlx::Error::PoolTimedOut", "sqlx::Error::Io"}
ProviderResults == {Ok(s) : s \in Snapshots} \cup {Err(e) : e \in ProviderErrors}

\* The results of the three provider fetches of one Bundle::fetch: the store
\* holds at most MaxRows rows over the three relations.
Rows(r) == IF r.ok THEN Len(r.val) ELSE 0
ProviderFetches ==
    {f \in ProviderResults \X ProviderResults \X ProviderResults :
        Rows(f[1]) + Rows(f[2]) + Rows(f[3]) <= MaxRows}

(* ------------------------------ hashing -------------------------------- *)
HashMod == 2^16

\* DefaultHasher::new(): fixed keys, the same initial state in every call.
DefaultHasherNew == 0

\* Hasher::write of one word into the running state.
HasherWrite(h, x) == (h * 31 + x + 1) % HashMod

RECURSIVE HashElems(_, _)
HashElems(h, s) ==
    IF s = <<>> THEN h ELSE HashElems(HasherWrite(h, Head(s)), Tail(s))

\* Hash of a snapshot: length prefix, then each record.
HashSnapshot(h, s) == HashElems(HasherWrite(h, Len(s)), s)

\* #[derive(Hash)] on the unit struct NoMetadata feeds nothing to the hasher.
NoMetadata == "NoMetadata"
HashMetadata(h, m) == h

(* --------------------------- bundle.rs --------------------------------- *)
PKG_VERSION == "0.1.0"
BUNDLE_PREFIX == "diamond/data"
DQ == "\""

\* format!("{}:{}", PKG_VERSION, hash)
FormatRevision(version, hash) == version \o ":" \o ToString(hash)

\* The hasher fed all the fields but the permissions.
BundleHashNoPermissions(metadata, proposals, sessions, permissions) ==
    HashSnapshot(
        HashSnapshot(HashMetadata(DefaultHasherNew, metadata), proposals),
        sessions)

\* The hasher state after the four fields, in the order of Bundle::new.
BundleHash(metadata, proposals, sessions, permissions) ==
    HashSnapshot(
        HashSnapshot(
            HashSnapshot(HashMetadata(DefaultHasherNew, metadata), proposals),
            sessions),
        permissions)

\* Bundle::new with a hasher keyed afresh in every build.
BundleNewSeeded(metadata, proposals, sessions, permissions) ==
    [manifest |-> [revision |-> FormatRevision(PKG_VERSION,
                       HashSnapshot(HashSnapshot(HashSnapshot(
                           HashMetadata(ticks + 1, metadata), proposals),
                           sessions), permissions)),
                   roots |-> <<BUNDLE_PREFIX>>,
                   wasm |-> <<>>,
                   metadata |-> metadata],
     proposals |-> proposals,
     sessions |-> sessions,
     permissions |-> permissions]

\* Bundle::new
BundleNew(metadata, proposals, sessions, permissions) ==
    [manifest |-> [revision |-> FormatRevision(PKG_VERSION,
                       BundleHash(metadata, proposals, sessions, permissions)),
                   roots |-> <<BUNDLE_PREFIX>>,
                   wasm |-> <<>>,
                   metadata |-> metadata],
     proposals |-> proposals,
     sessions |-> sessions,
     permissions |-> permissions]

\* Bundle::fetch building a bundle of whatever was fetched after proposals.
BundleFetchPartial(metadata, rp, rs, rq) ==
    IF ~rp.ok THEN Err(rp.err)
    ELSE Ok(BundleNew(metadata, rp.val,
                      IF rs.ok THEN rs.val ELSE <<>>,
                      IF rq.ok THEN rq.val ELSE <<>>))

\* Bundle::fetch: the three provider calls in order, each `?`-propagated.
BundleFetch(metadata, rp, rs, rq) ==
    IF ~rp.ok THEN Err(rp.err)
    ELSE IF ~rs.ok THEN Err(rs.err)
    ELSE IF ~rq.ok THEN Err(rq.err)
    ELSE Ok(BundleNew(metadata, rp.val, rs.val, rq.val))

\* Bundle::revision
Revision(bundle) == bundle.manifest.revision

(* serde_json::to_vec, as token sequences *)
JsonString(s) == <<DQ, s, DQ>>

RECURSIVE JsonItems(_)
JsonItems(s) ==
    IF s = <<>> THEN <<>>
    ELSE IF Len(s) = 1 THEN <<ToString(Head(s))>>
    ELSE <<ToString(Head(s)), ",">> \o JsonItems(Tail(s))

JsonSnapshot(s) == <<"[">> \o JsonItems(s) \o <<"]">>

JsonManifest(m) ==
    <<"{">> \o JsonString("revision") \o <<":">> \o JsonString(m.revision)
    \o <<",">> \o JsonString("roots") \o <<":", "[">>
    \o JsonString(m.roots[1]) \o <<"]", ",">>
    \o JsonString("wasm") \o <<":", "[", "]", ",">>
    \o JsonString("metadata") \o <<":", "null", "}">>

\* Header::new_gnu() alone: the size field left at zero.
HeaderNewGnu(slice) == [size |-> 0]

\* Header::from_bytes: a GNU header carrying the size of the slice.
HeaderFromBytes(slice) == [size |-> Len(slice)]

\* tar::Builder::append_data: one entry, the path set on the header.
AppendData(header, path, data) ==
    [path |-> path, header |-> header, data |-> data]

\* Bundle::to_tar_gz. `enc_ok` is whether every serde/io call succeeded.
\* The bytes are a sequence of gzip members: one member holding the tar.
to_tar_gz(bundle, enc_ok) ==
    IF ~enc_ok THEN Err("anyhow::Error")
    ELSE
    LET manifest == JsonManifest(bundle.manifest)
        proposals == JsonSnapshot(bundle.proposals)
        sessions == JsonSnapshot(bundle.sessions)
        permissions == JsonSnapshot(bundle.permissions)
    IN Ok(<<[compression |-> "best",
           tar |-> <<
             AppendData(HeaderFromBytes(manifest), ".manifest", manifest),
             AppendData(HeaderFromBytes(proposals),
                 BUNDLE_PREFIX \o "/users/proposals/data.json", proposals),
             AppendData(HeaderFromBytes(sessions),
                 BUNDLE_PREFIX \o "/users/sessions/data.json", sessions),
             AppendData(HeaderFromBytes(permissions),
                 BUNDLE_PREFIX \o "/users/permissions/data.json", permissions)
           >>]>>)

(* ----------------------------- main.rs --------------------------------- *)
\* TryFrom<Bundle> for BundleFile
BundleFileTryFrom(bundle, enc_ok) ==
    LET r == to_tar_gz(bundle, enc_ok)
    IN IF r.ok THEN Ok([bundle |-> bundle, file |-> r.val]) ELSE Err(r.err)

(* Option<T> *)
None == [some |-> FALSE]
Some(v) == [some |-> TRUE, val |-> v]

\* Bytes::new()
BytesNew == <<>>

(* ------------------------ headers: entity tags ------------------------- *)
\* format!(r#""{}""#, revision)
FormatQuoted(revision) == <<DQ, revision, DQ>>

\* ETag::from_str: a strong tag "x" or a weak tag W/"x", anything else fails.
ETagFromStr(s) ==
    IF Len(s) = 3 /\ s[1] = DQ /\ s[3] = DQ
    THEN Ok([weak |-> FALSE, tag |-> s[2]])
    ELSE IF Len(s) = 4 /\ s[1] = "W/" /\ s[2] = DQ /\ s[4] = DQ
    THEN Ok([weak |-> TRUE, tag |-> s[3]])
    ELSE Err("InvalidETag")

\* HeaderMap::typed_insert(etag): the tag's wire form.
ETagEncode(etag) ==
    IF etag.weak THEN <<"W/", DQ, etag.tag, DQ>> ELSE <<DQ, etag.tag, DQ>>

\* Option<TypedHeader<IfNoneMatch>>: `raw` is the header's comma-separated
\* items when the header is present. Decoding keeps the items unparsed.
IfNoneMatchDecode(raw) ==
    IF ~raw.some THEN None
    ELSE IF raw.val = << <<"*">> >> THEN Some([any |-> TRUE, tags |-> <<>>])
    ELSE Some([any |-> FALSE, tags |-> raw.val])

\* EntityTag::weak_eq: the opaque tags agree, the weakness flags are ignored.
WeakEq(a, b) == a.tag = b.tag

\* precondition_passes with an unparsable item counted as a match.
precondition_passes_strict(if_none_match, etag) ==
    IF if_none_match.any THEN FALSE
    ELSE \A i \in 1..Len(if_none_match.tags) :
             LET t == ETagFromStr(if_none_match.tags[i])
             IN t.ok /\ ~WeakEq(t.val, etag)

\* IfNoneMatch::precondition_passes: no listed tag weakly matches the etag;
\* items that do not parse as entity tags are skipped; `*` matches anything.
precondition_passes(if_none_match, etag) ==
    IF if_none_match.any THEN FALSE
    ELSE ~ \E i \in 1..Len(if_none_match.tags) :
             LET t == ETagFromStr(if_none_match.tags[i])
             IN t.ok /\ WeakEq(t.val, etag)

(* --------------------------- require_bearer ---------------------------- *)
\* RequireBearerLayer: allow when no token is required or the request
\* carries exactly the required bearer token.
RequireBearerAllows(token, authorization) ==
    ~token.some \/ (authorization.some /\ authorization.val = token.val)

(* -------------------------------- router ------------------------------- *)
BundleRoute == "/bundle.tar.gz"

\* The router without the bearer layer.
RouteNoBearer(token, path, method, authorization) ==
    IF path = BundleRoute
    THEN IF method = "GET" THEN "bundle_endpoint" ELSE "method_not_allowed"
    ELSE "fallback_endpoint"

\* The router with the bearer layer around every service (layer, not
\* route_layer).
RouteLayerAll(token, path, method, authorization) ==
    IF ~RequireBearerAllows(token, authorization) THEN "unauthorized"
    ELSE IF path # BundleRoute THEN "fallback_endpoint"
    ELSE IF method = "GET" THEN "bundle_endpoint"
    ELSE "method_not_allowed"

\* Router::route(..).route_layer(..).fallback(..): what a request reaches.
\* The bearer layer wraps the matched route only; the fallback is outside it.
Route(token, path, method, authorization) ==
    IF path = BundleRoute
    THEN IF ~RequireBearerAllows(token, authorization) THEN "unauthorized"
         ELSE IF method = "GET" THEN "bundle_endpoint"
         ELSE "method_not_allowed"
    ELSE "fallback_endpoint"

Response(status, etag, body) == [status |-> status, etag |-> etag, body |-> body]

\* fallback_endpoint
fallback_endpoint == Response(404, None, BytesNew)

\* The answers given without running a handler.
Unauthorized == Response(401, None, BytesNew)
MethodNotAllowed == Response(405, None, BytesNew)

\* bundle_endpoint, lines 211-215: the etag from the revision read.
EndpointETag(bundle_file) == ETagFromStr(FormatQuoted(Revision(bundle_file.bundle))).val

\* The 304 arm taken on a strong match only.
NotModifiedStrong(if_none_match, etag) ==
    /\ if_none_match.some
    /\ ~if_none_match.val.any
    /\ \E i \in 1..Len(if_none_match.val.tags) :
         LET t == ETagFromStr(if_none_match.val.tags[i])
         IN t.ok /\ ~t.val.weak /\ ~etag.weak /\ t.val.tag = etag.tag

\* bundle_endpoint, lines 218-221: whether the 304 arm is taken.
NotModified(if_none_match, etag) ==
    if_none_match.some /\ ~precondition_passes(if_none_match.val, etag)

\* `during` is history: the pairs that have been in the store since the
\* request reached bundle_endpoint.
IdleRequest ==
    [pc |-> "idle", path |-> "", method |-> "", authorization |-> None,
     if_none_match |-> None, etag |-> None, resp |-> None, during |-> {}]

\* A request whose connection was closed before an answer was written.
AbortedRequest == [IdleRequest EXCEPT !.pc = "aborted"]

Init ==
    /\ main_pc = "connect"
    /\ require_token \in {None, Some("secret")}
    /\ polling_interval \in 1..MaxInterval
    /\ current_bundle = None
    /\ writer = FALSE
    /\ upd_pc = "unspawned"
    /\ next_fetch = 0
    /\ upd_bundle = None
    /\ upd_file = None
    /\ serve_pc = "unspawned"
    /\ req = [r \in Requests |-> IdleRequest]
    /\ now = 0
    /\ d0 = 0
    /\ ticks = 0
    /\ tick_start = 0
    /\ completed = 0
    /\ last_fetch = None

(* -------------------------------- main --------------------------------- *)
\* A panic of main: the runtime is dropped, every task that has not finished
\* is cancelled and the requests in flight are never answered.
ProcessExit ==
    /\ main_pc' = "exited"
    /\ upd_pc' = IF upd_pc \in {"unspawned", "panicked"} THEN upd_pc ELSE "aborted"
    /\ serve_pc' = IF serve_pc \in {"unspawned", "panicked"} THEN serve_pc ELSE "aborted"
    /\ req' = [r \in Requests |->
                 IF req[r].pc \in {"idle", "done"} THEN req[r] ELSE AbortedRequest]

\* connect_ispyb(..).await.unwrap()
ConnectIspyb ==
    /\ main_pc = "connect"
    /\ \E connected \in BOOLEAN :
         IF connected
         THEN main_pc' = "fetch_initial" /\ UNCHANGED <<upd_pc, serve_pc, req>>
         ELSE ProcessExit
    /\ UNCHANGED <<config, last_fetch, current_bundle, writer, next_fetch,
                   upd_bundle, upd_file, now, timing>>

\* main going on to spawn the tasks when the initial fetch has failed.
FetchInitialBundleLax ==
    /\ main_pc = "fetch_initial"
    /\ \E f \in ProviderFetches, enc_ok \in BOOLEAN :
         LET fetched == BundleFetch(NoMetadata, f[1], f[2], f[3])
             bundle_file == IF fetched.ok
                            THEN BundleFileTryFrom(fetched.val, enc_ok)
                            ELSE Err(fetched.err)
         IN /\ current_bundle' = IF bundle_file.ok THEN Some(bundle_file.val)
                                 ELSE current_bundle
            /\ last_fetch' = Some([results |-> f, returned |-> fetched])
    /\ main_pc' = "spawn"
    /\ UNCHANGED <<config, writer, updater, serve_pc, req, now, timing>>

\* fetch_initial_bundle(&ispyb_pool).await.unwrap()
FetchInitialBundle ==
    /\ main_pc = "fetch_initial"
    /\ \E f \in ProviderFetches, enc_ok \in BOOLEAN :
         LET fetched == BundleFetch(NoMetadata, f[1], f[2], f[3])
             bundle_file == IF fetched.ok
                            THEN BundleFileTryFrom(fetched.val, enc_ok)
                            ELSE Err(fetched.err)
         IN /\ last_fetch' = Some([results |-> f, returned |-> fetched])
            /\ IF bundle_file.ok
               THEN /\ current_bundle' = Some(bundle_file.val)
                    /\ main_pc' = "spawn"
                    /\ UNCHANGED <<upd_pc, serve_pc, req>>
               ELSE /\ ProcessExit
                    /\ UNCHANGED current_bundle
    /\ UNCHANGED <<config, writer, next_fetch, upd_bundle, upd_file, now,
                   timing>>

\* tasks.spawn(update_bundle(..)); tasks.spawn(serve_app(..))
SpawnTasks ==
    /\ main_pc = "spawn"
    /\ main_pc' = "join"
    /\ upd_pc' = "start"
    /\ serve_pc' = "bind"
    /\ UNCHANGED <<config, last_fetch, current_bundle, writer, next_fetch,
                   upd_bundle, upd_file, req, now, timing>>

\* tasks.join_next().await.unwrap().unwrap(): the first task to finish has
\* panicked (neither task returns), so the outer unwrap panics in main.
JoinNext ==
    /\ main_pc = "join"
    /\ upd_pc = "panicked" \/ serve_pc = "panicked"
    /\ ProcessExit
    /\ UNCHANGED <<config, last_fetch, current_bundle, writer, next_fetch,
                   upd_bundle, upd_file, now, timing>>

(* ------------------------------ serve_app ------------------------------ *)
\* TcpListener::bind(..).await.unwrap(), then serve(..)
ServeBind ==
    /\ serve_pc = "bind"
    /\ \E bound \in BOOLEAN :
         serve_pc' = IF bound THEN "serving" ELSE "panicked"
    /\ UNCHANGED <<main_pc, config, last_fetch, current_bundle, writer,
                   updater, req, now, timing>>

(* ---------------------------- update_bundle ---------------------------- *)
\* let mut next_fetch = Instant::now().add(polling_interval);
UpdateStart ==
    /\ upd_pc = "start"
    /\ next_fetch' = now + polling_interval
    /\ d0' = now
    /\ completed' = now
    /\ upd_pc' = "sleep"
    /\ UNCHANGED <<main_pc, config, last_fetch, current_bundle, writer,
                   upd_bundle, upd_file, serve_pc, req, now, ticks,
                   tick_start>>

\* The next deadline counted from the instant the tick starts.
SleepUntilFromNow ==
    /\ upd_pc = "sleep"
    /\ Max(now, next_fetch) <= MaxTime
    /\ now' = Max(now, next_fetch)
    /\ next_fetch' = now' + polling_interval
    /\ ticks' = ticks + 1
    /\ tick_start' = now'
    /\ upd_pc' = "fetch"
    /\ UNCHANGED <<main_pc, config, last_fetch, current_bundle, writer,
                   upd_bundle, upd_file, serve_pc, req, d0, completed>>

\* sleep_until(next_fetch).await; next_fetch = next_fetch.add(polling_interval);
\* The task resumes at the deadline, or at once when the deadline has passed.
SleepUntil ==
    /\ upd_pc = "sleep"
    /\ Max(now, next_fetch) <= MaxTime
    /\ now' = Max(now, next_fetch)
    /\ next_fetch' = next_fetch + polling_interval
    /\ ticks' = ticks + 1
    /\ tick_start' = now'
    /\ upd_pc' = "fetch"
    /\ UNCHANGED <<main_pc, config, last_fetch, current_bundle, writer,
                   upd_bundle, upd_file, serve_pc, req, d0, completed>>

\* The fetch made with the write guard already taken:
\* *current_bundle.write().await = Bundle::fetch(..).await.unwrap()...
UpdateFetchLocked ==
    /\ upd_pc = "fetch"
    /\ ~writer
    /\ writer' = TRUE
    /\ \E f \in ProviderFetches :
         LET fetched == BundleFetch(NoMetadata, f[1], f[2], f[3])
         IN /\ last_fetch' = Some([results |-> f, returned |-> fetched])
            /\ IF fetched.ok
               THEN upd_bundle' = Some(fetched.val) /\ upd_pc' = "serialize"
               ELSE upd_pc' = "panicked" /\ UNCHANGED upd_bundle
    /\ UNCHANGED <<main_pc, config, current_bundle, next_fetch,
                   upd_file, serve_pc, req, now, timing>>

\* let bundle = Bundle::fetch(NoMetadata, &ispyb_pool).await.unwrap();
UpdateFetch ==
    /\ upd_pc = "fetch"
    /\ \E f \in ProviderFetches :
         LET fetched == BundleFetch(NoMetadata, f[1], f[2], f[3])
         IN /\ last_fetch' = Some([results |-> f, returned |-> fetched])
            /\ IF fetched.ok
               THEN upd_bundle' = Some(fetched.val) /\ upd_pc' = "serialize"
               ELSE upd_pc' = "panicked" /\ UNCHANGED upd_bundle
    /\ UNCHANGED <<main_pc, config, current_bundle, writer, next_fetch,
                   upd_file, serve_pc, req, now, timing>>

\* let bundle_file = BundleFile::try_from(bundle).unwrap();
UpdateSerialize ==
    /\ upd_pc = "serialize"
    /\ \E enc_ok \in BOOLEAN :
         LET bundle_file == BundleFileTryFrom(upd_bundle.val, enc_ok)
         IN IF bundle_file.ok
            THEN upd_file' = Some(bundle_file.val) /\ upd_pc' = "write"
            ELSE upd_pc' = "panicked" /\ UNCHANGED upd_file
    /\ upd_bundle' = None
    /\ UNCHANGED <<main_pc, config, last_fetch, current_bundle, writer,
                   next_fetch, serve_pc, req, now, timing>>

\* current_bundle.as_ref().write().await: the write guard is granted. (No
\* read guard is held across a suspension point, see ReadRevision, ReadFile.)
WriteAcquire ==
    /\ upd_pc = "write"
    /\ ~writer
    /\ writer' = TRUE
    /\ upd_pc' = "assign"
    /\ UNCHANGED <<main_pc, config, last_fetch, current_bundle, next_fetch,
                   upd_bundle, upd_file, serve_pc, req, now, timing>>

\* The request table after the store takes `pair`: the requests in
\* bundle_endpoint have one more pair in their history.
Swapped(pair) ==
    [r \in Requests |->
        IF req[r].pc \in {"read_revision", "read_file"}
        THEN [req[r] EXCEPT !.during = @ \cup {pair}]
        ELSE req[r]]

\* The assignment writing the archive alone: guard.file = bundle_file.file.
WriteAssignFileOnly ==
    /\ upd_pc = "assign"
    /\ current_bundle' = Some([current_bundle.val EXCEPT !.file = upd_file.val.file])
    /\ upd_file' = None
    /\ writer' = FALSE
    /\ completed' = now
    /\ upd_pc' = "sleep"
    /\ req' = Swapped(current_bundle'.val)
    /\ UNCHANGED <<main_pc, config, last_fetch, next_fetch, upd_bundle,
                   serve_pc, now, d0, ticks, tick_start>>

\* *guard = bundle_file; the guard is dropped and the loop iterates.
WriteAssign ==
    /\ upd_pc = "assign"
    /\ current_bundle' = upd_file
    /\ upd_file' = None
    /\ writer' = FALSE
    /\ completed' = now
    /\ upd_pc' = "sleep"
    /\ req' = Swapped(current_bundle'.val)
    /\ UNCHANGED <<main_pc, config, last_fetch, next_fetch, upd_bundle,
                   serve_pc, now, d0, ticks, tick_start>>

(* ------------------------------- requests ------------------------------ *)
\* The revision whose tags the clients hold: that of the empty data set.
ClientRevision == Revision(BundleNew(NoMetadata, <<>>, <<>>, <<>>))

\* The If-None-Match values a client sends: `*`, a tag it holds (strong,
\* weak, unquoted), a tag no bundle has, and lists of them.
IfNoneMatchInputs ==
    LET strong == FormatQuoted(ClientRevision)
        weak == <<"W/", DQ, ClientRevision, DQ>>
        unquoted == <<ClientRevision>>
        other == FormatQuoted("none")
    IN {None, Some(<< <<"*">> >>), Some(<<strong>>), Some(<<weak>>),
        Some(<<other>>), Some(<<unquoted>>), Some(<<unquoted, strong>>)}

\* The Authorization values a client sends: none, a token that is not the
\* required one, and the required one.
AuthorizationInputs(token) ==
    {None, Some("wrong")} \cup (IF token.some THEN {token} ELSE {})

\* The request table after request r gets record `answered`: the answers
\* given earlier have been sent and their entries are free again.
Answer(r, answered) ==
    [q \in Requests |->
        IF q = r THEN answered
        ELSE IF req[q].pc = "done" THEN IdleRequest
        ELSE req[q]]

\* RwLock::read().await returns once the write guard is not held.
CanRead == ~writer

\* A request arrives and is routed; all but bundle_endpoint answer at once.
Arrive(r) ==
    /\ serve_pc = "serving"
    /\ req[r].pc = "idle"
    /\ \E path \in {BundleRoute, "/"}, method \in {"GET", "POST"},
          authorization \in AuthorizationInputs(require_token),
          if_none_match \in IfNoneMatchInputs :
         LET to == Route(require_token, path, method, authorization)
             request == [IdleRequest EXCEPT !.path = path, !.method = method,
                             !.authorization = authorization,
                             !.if_none_match = if_none_match]
         IN req' =
              IF to = "bundle_endpoint"
              THEN [req EXCEPT ![r] = [request EXCEPT !.pc = "read_revision",
                                           !.during = {current_bundle.val}]]
              ELSE Answer(r, [request EXCEPT !.pc = "done", !.resp = Some(
                       IF to = "unauthorized" THEN Unauthorized
                       ELSE IF to = "method_not_allowed" THEN MethodNotAllowed
                       ELSE fallback_endpoint)])
    /\ UNCHANGED <<main_pc, config, last_fetch, current_bundle, writer,
                   updater, serve_pc, now, timing>>

\* bundle_endpoint, lines 211-221: the read guard taken, the etag made of
\* the revision read, the guard dropped at the end of the statement, and the
\* 304 answer when the precondition fails.
ReadRevision(r) ==
    /\ serve_pc = "serving"
    /\ req[r].pc = "read_revision"
    /\ CanRead
    /\ LET etag == EndpointETag(current_bundle.val)
       IN req' =
            IF NotModified(IfNoneMatchDecode(req[r].if_none_match), etag)
            THEN Answer(r, [req[r] EXCEPT !.pc = "done", !.etag = Some(etag),
                     !.resp = Some(Response(304, Some(ETagEncode(etag)), BytesNew))])
            ELSE [req EXCEPT ![r] = [@ EXCEPT !.pc = "read_file", !.etag = Some(etag)]]
    /\ UNCHANGED <<main_pc, config, last_fetch, current_bundle, writer,
                   updater, serve_pc, now, timing>>

\* The 200 arm answering with the archive update_bundle has built and not
\* yet assigned, when there is one.
ReadFilePending(r) ==
    /\ serve_pc = "serving"
    /\ req[r].pc = "read_file"
    /\ CanRead
    /\ req' = Answer(r, [req[r] EXCEPT !.pc = "done", !.resp = Some(
           Response(200, Some(ETagEncode(req[r].etag.val)),
                    IF upd_file.some THEN upd_file.val.file
                    ELSE current_bundle.val.file))])
    /\ UNCHANGED <<main_pc, config, last_fetch, current_bundle, writer,
                   updater, serve_pc, now, timing>>

\* The 200 arm moving the file out of the store instead of cloning it:
\* std::mem::take(&mut current_bundle.write().await.file).
ReadFileTaking(r) ==
    /\ serve_pc = "serving"
    /\ req[r].pc = "read_file"
    /\ CanRead
    /\ req' = Answer(r, [req[r] EXCEPT !.pc = "done", !.resp = Some(
           Response(200, Some(ETagEncode(req[r].etag.val)),
                    current_bundle.val.file))])
    /\ current_bundle' = Some([current_bundle.val EXCEPT !.file = BytesNew])
    /\ UNCHANGED <<main_pc, config, last_fetch, writer, updater, serve_pc,
                   now, timing>>

\* bundle_endpoint, lines 222-226: the read guard taken again, and the 200
\* answer with a clone of the file then current.
ReadFile(r) ==
    /\ serve_pc = "serving"
    /\ req[r].pc = "read_file"
    /\ CanRead
    /\ req' = Answer(r, [req[r] EXCEPT !.pc = "done", !.resp = Some(
           Response(200, Some(ETagEncode(req[r].etag.val)),
                    current_bundle.val.file))])
    /\ UNCHANGED <<main_pc, config, last_fetch, current_bundle, writer,
                   updater, serve_pc, now, timing>>

(* --------------------------------- time -------------------------------- *)
\* Time passes while work is in progress; a sleeping update_bundle is woken
\* by SleepUntil.
Elapse ==
    /\ main_pc # "exited"
    /\ upd_pc # "sleep"
    /\ now < MaxTime
    /\ now' = now + 1
    /\ UNCHANGED <<main_pc, config, last_fetch, current_bundle, writer,
                   updater, serve_pc, req, timing>>

(* ---------------------------- specifications --------------------------- *)
Startup ==
    \/ ConnectIspyb
    \/ FetchInitialBundle
    \/ SpawnTasks
    \/ JoinNext
    \/ ServeBind

Refresher ==
    \/ UpdateStart
    \/ SleepUntil
    \/ UpdateFetch
    \/ UpdateSerialize
    \/ WriteAcquire
    \/ WriteAssign

Serving ==
    \E r \in Requests :
      \/ Arrive(r)
      \/ ReadRevision(r)
      \/ ReadFile(r)

\* The server under load: every step of update_bundle takes no time, so the
\* ticks fall on their deadlines.
Next == Startup \/ Refresher \/ Serving

Spec == Init /\ [][Next]_vars

\* The refresher with ticks of any duration, and no requests.
NextTimed == Startup \/ Refresher \/ Elapse

SpecTimed == Init /\ [][NextTimed]_vars

(* ------------------------------ properties ----------------------------- *)
Done(r) == req[r].pc = "done"
Status(r) == req[r].resp.val.status
Body(r) == req[r].resp.val.body
TagHeader(r) == req[r].resp.val.etag

\* What a client reads in an archive: the revision in its .manifest entry.
ManifestRevision(file) == file[1].tar[1].data[7]

\* The (proposals, sessions, permissions) a bundle was built from.
Data(bundle) == <<bundle.proposals, bundle.sessions, bundle.permissions>>

\* A pair as fetch_initial_bundle and update_bundle build it.
GoodPair(bundle_file) ==
    /\ \E p \in Snapshots, s \in Snapshots, q \in Snapshots :
         bundle_file.bundle = BundleNew(NoMetadata, p, s, q)
    /\ bundle_file.file = to_tar_gz(bundle_file.bundle, TRUE).val

\* C1: every 200 answer carries, as entity tag, the quoted revision of the
\* build whose archive is its body (the revision in the body's manifest).
C1_TagAndBodyOfOneBuild ==
    \A r \in Requests :
      (Done(r) /\ Status(r) = 200) =>
        TagHeader(r) = Some(FormatQuoted(ManifestRevision(Body(r))))

\* C2: a failed fetch or serialization of a tick is not fatal to the
\* refresher: update_bundle never terminates because of it.
C2_RefresherSurvivesFailedTick == upd_pc # "panicked"

\* C3: once a tick of the refresher has failed, the serving task is not
\* stopped and no request in flight is left unanswered.
C3_ServingSurvivesFailedTick ==
    upd_pc = "panicked" =>
      /\ serve_pc # "aborted"
      /\ \A r \in Requests : req[r].pc # "aborted"

\* C4: the tasks are spawned, and requests handled, only with a good initial
\* pair in place; when the connection, the initial fetch or its serialization
\* fails, the process has exited with no task spawned and no request taken.
C4_InitialFetchMandatory ==
    /\ (\/ main_pc \in {"spawn", "join"}
        \/ upd_pc # "unspawned"
        \/ serve_pc # "unspawned"
        \/ \E r \in Requests : req[r].pc # "idle")
       => (current_bundle.some /\ GoodPair(current_bundle.val))
    /\ (~current_bundle.some /\ main_pc \notin {"connect", "fetch_initial"})
       => /\ main_pc = "exited"
          /\ upd_pc = "unspawned"
          /\ serve_pc = "unspawned"
          /\ \A r \in Requests : req[r].pc = "idle"

C4_Witness ==
    \E r \in Requests : req[r].pc = "read_file" /\ current_bundle.some

Presents(raw, E) ==
    /\ raw.some
    /\ \/ raw.val = << <<"*">> >>
       \/ \E i \in 1..Len(raw.val) : raw.val[i] = E \/ raw.val[i] = <<"W/">> \o E

\* C5, amended: with E the quoted current revision when bundle_endpoint reads
\* it, a header that presents E (E, W/E or `*`) is answered 304 with an empty
\* body and tag header E; any other header, and no header, is answered 200
\* with tag header E and the whole archive current when the body is read.
C5_Step(r) ==
    LET E == FormatQuoted(Revision(current_bundle.val.bundle))
    IN /\ (req[r].pc = "read_revision" /\ req'[r].pc \notin {"read_revision", "aborted"})
          => IF Presents(req[r].if_none_match, E)
             THEN /\ req'[r].pc = "done"
                  /\ req'[r].resp = Some(Response(304, Some(E), BytesNew))
             ELSE /\ req'[r].pc = "read_file"
                  /\ ETagEncode(req'[r].etag.val) = E
       /\ (req[r].pc = "read_file" /\ req'[r].pc = "done")
          => /\ req'[r].resp = Some(Response(200,
                    Some(ETagEncode(req[r].etag.val)), current_bundle.val.file))
             /\ current_bundle.val.file # BytesNew

Malformed(raw) ==
    /\ raw.some
    /\ raw.val # << <<"*">> >>
    /\ \A i \in 1..Len(raw.val) : ~ETagFromStr(raw.val[i]).ok

\* Whether request r was let through to bundle_endpoint.
ForBundleEndpoint(r) ==
    /\ req[r].path = BundleRoute
    /\ req[r].method = "GET"
    /\ (require_token.some => req[r].authorization = require_token)

\* C6: a GET of /bundle.tar.gz with a malformed If-None-Match is answered as
\* one without the header: 200, the tag header and a whole archive as body.
C6_MalformedHeaderIsNoHeader ==
    \A r \in Requests :
      (Done(r) /\ ForBundleEndpoint(r) /\ Malformed(req[r].if_none_match)) =>
        /\ Status(r) = 200
        /\ TagHeader(r) = Some(ETagEncode(req[r].etag.val))
        /\ \E p \in Snapshots, s \in Snapshots, q \in Snapshots :
             Body(r) = to_tar_gz(BundleNew(NoMetadata, p, s, q), TRUE).val

C6_Witness ==
    \E r \in Requests :
      Done(r) /\ ForBundleEndpoint(r) /\ Malformed(req[r].if_none_match)
              /\ Status(r) = 200

\* The deadline of the k-th tick.
Deadline(k) == d0 + k * polling_interval

\* C7: once update_bundle runs, the next deadline is d0 + (k+1)*interval with
\* k the ticks started, whatever the ticks took; and tick k started at its
\* deadline d0 + k*interval, or on completion of tick k-1 when that was later.
C7_DeadlinesFromPreviousDeadline ==
    /\ upd_pc \in {"sleep", "fetch", "serialize", "write", "assign", "panicked"}
         => next_fetch = Deadline(ticks + 1)
    /\ upd_pc \in {"fetch", "serialize", "write", "assign"} =>
         /\ ticks >= 1
         /\ tick_start = Max(Deadline(ticks), completed)
         /\ tick_start >= d0 + polling_interval

C7_Witness ==
    /\ upd_pc = "fetch"
    /\ ticks >= 2
    /\ tick_start > Deadline(ticks)
    /\ d0 > 0

\* C8 as stated: with a token required, a request without it, whatever its
\* path, is answered 401 with no body and no entity tag.
C8_AsStated ==
    \A r \in Requests :
      (Done(r) /\ require_token.some /\ req[r].authorization # require_token) =>
        (Status(r) = 401 /\ Body(r) = BytesNew /\ ~TagHeader(r).some)

\* C8, amended: with a token required, a request without it is answered 401
\* when its path is /bundle.tar.gz and 404 otherwise, in both cases with no
\* body and no entity tag, and bundle_endpoint never runs for it; with no
\* token required, no request is answered 401.
C8_BearerGate ==
    \A r \in Requests :
      /\ (require_token.some /\ req[r].authorization # require_token) =>
           /\ req[r].pc \in {"idle", "done", "aborted"}
           /\ Done(r) =>
                /\ Status(r) = IF req[r].path = BundleRoute THEN 401 ELSE 404
                /\ Body(r) = BytesNew
                /\ ~TagHeader(r).some
      /\ (~require_token.some /\ Done(r)) => Status(r) # 401

C8_Witness ==
    \E r \in Requests :
      /\ Done(r)
      /\ require_token.some
      /\ req[r].authorization = Some("wrong")
      /\ req[r].path = BundleRoute
      /\ Status(r) = 401

\* C9: a request to a path other than /bundle.tar.gz never reaches
\* bundle_endpoint and is answered 404 with no body and no entity tag.
C9_OtherPathsNotFound ==
    \A r \in Requests :
      (req[r].pc \notin {"idle", "aborted"} /\ req[r].path # BundleRoute) =>
        /\ Done(r)
        /\ Status(r) = 404
        /\ Body(r) = BytesNew
        /\ ~TagHeader(r).some

C9_Witness ==
    \E r \in Requests :
      /\ Done(r)
      /\ req[r].path # BundleRoute
      /\ require_token.some
      /\ req[r].authorization # require_token
      /\ Status(r) = 404

\* C10: a swap that installs a pair built from the data of the pair it
\* replaces installs the same revision and the same archive, and a request
\* that presents the tag of the pair's data is answered 304 before and after.
C10_Step ==
    /\ (current_bundle.some /\ current_bundle'.some
          /\ Data(current_bundle'.val.bundle) = Data(current_bundle.val.bundle))
       => /\ Revision(current_bundle'.val.bundle) = Revision(current_bundle.val.bundle)
          /\ current_bundle'.val.file = current_bundle.val.file
    /\ \A r \in Requests :
         (/\ req[r].pc = "read_revision"
          /\ req'[r].pc \notin {"read_revision", "aborted"}
          /\ req[r].if_none_match = Some(<<FormatQuoted(ClientRevision)>>)
          /\ Data(current_bundle.val.bundle) = << <<>>, <<>>, <<>> >>)
         => (req'[r].pc = "done" /\ req'[r].resp.val.status = 304)

Entries(file) == file[1].tar

\* The `roots` array read from the .manifest entry of an archive.
ManifestRoots(file) == <<Entries(file)[1].data[16]>>

\* The record a JSON number token stands for.
ParseId(token) == CHOOSE id \in RecordIds : ToString(id) = token

\* The snapshot a JSON array of records decodes to.
ParseSnapshot(data) ==
    LET inner == SubSeq(data, 2, Len(data) - 1)
    IN [i \in 1..((Len(inner) + 1) \div 2) |-> ParseId(inner[2 * i - 1])]

\* The pairs serialization has produced and that are held somewhere.
ProducedPairs ==
    (IF current_bundle.some THEN {current_bundle.val} ELSE {})
    \cup (IF upd_file.some THEN {upd_file.val} ELSE {})

\* C11: every archive produced holds exactly four entries, in the order
\* .manifest, <root>/users/{proposals,sessions,permissions}/data.json, with
\* <root> the one constant prefix and the element of the manifest's roots;
\* each entry decodes to the field of the bundle it stands for, the manifest
\* entry is the JSON of the bundle's manifest, and each header's size is the
\* length of its entry's content.
C11_ArchiveEntries ==
    \A pair \in ProducedPairs :
      LET e == Entries(pair.file)
          root == ManifestRoots(pair.file)[1]
      IN /\ Len(pair.file) = 1
         /\ Len(e) = 4
         /\ root = BUNDLE_PREFIX
         /\ pair.bundle.manifest.roots = <<root>>
         /\ e[1].path = ".manifest"
         /\ e[2].path = root \o "/users/proposals/data.json"
         /\ e[3].path = root \o "/users/sessions/data.json"
         /\ e[4].path = root \o "/users/permissions/data.json"
         /\ e[1].data = JsonManifest(pair.bundle.manifest)
         /\ ManifestRevision(pair.file) = Revision(pair.bundle)
         /\ ParseSnapshot(e[2].data) = pair.bundle.proposals
         /\ ParseSnapshot(e[3].data) = pair.bundle.sessions
         /\ ParseSnapshot(e[4].data) = pair.bundle.permissions
         /\ \A i \in 1..4 : e[i].header.size = Len(e[i].data)

C11_Witness ==
    /\ upd_file.some
    /\ upd_file.val.bundle.sessions # <<>>
    /\ current_bundle.val.bundle.sessions = <<>>

\* The first of the three provider calls that failed, 0 when none did.
FirstFailure(f) ==
    IF ~f[1].ok THEN 1 ELSE IF ~f[2].ok THEN 2 ELSE IF ~f[3].ok THEN 3 ELSE 0

\* C12: Bundle::fetch is all-or-nothing. When one of the three provider
\* fetches failed, it returned an error, that of the provider call that
\* failed, and no bundle: none is held by the caller afterwards. When all
\* three succeeded it returned a bundle of exactly the three snapshots, and
\* that bundle is the one the caller goes on with.
C12_FetchAllOrNothing ==
    last_fetch.some =>
      LET f == last_fetch.val.results
          returned == last_fetch.val.returned
      IN IF FirstFailure(f) # 0
         THEN /\ returned = Err(f[FirstFailure(f)].err)
              /\ upd_bundle = None
              /\ upd_pc = "unspawned" => current_bundle = None
         ELSE /\ returned.ok
              /\ Data(returned.val) = <<f[1].val, f[2].val, f[3].val>>
              /\ upd_pc = "serialize" => upd_bundle = Some(returned.val)

C12_Witness ==
    /\ upd_pc = "panicked"
    /\ last_fetch.some
    /\ last_fetch.val.results[1].ok
    /\ last_fetch.val.results[1].val # <<>>
    /\ last_fetch.val.results[2].ok
    /\ ~last_fetch.val.results[3].ok

\* C13: update_bundle holds the write guard only to assign the pair: while
\* it fetches or serializes the guard is not held and a reader gets the lock,
\* and when the guard is held the new pair is already complete.
C13_WriteLockOnlyForReplacement ==
    /\ upd_pc \in {"sleep", "fetch", "serialize", "write"} => (~writer /\ CanRead)
    /\ (writer /\ main_pc # "exited") =>
         /\ upd_pc = "assign"
         /\ upd_bundle = None
         /\ upd_file.some
         /\ GoodPair(upd_file.val)

C13_Witness ==
    /\ upd_pc = "serialize"
    /\ CanRead
    /\ \E r \in Requests : req[r].pc = "read_file"

\* Whether startup is over: main has the initial pair and goes on to spawn.
StartedUp == main_pc \in {"spawn", "join"} \/ upd_pc # "unspawned"
                 \/ serve_pc # "unspawned"

\* A complete pair of one build: the revision is that of the bundle's data,
\* and the archive is the serialization of the bundle held with it.
SameBuild(pair) ==
    /\ Revision(pair.bundle) = FormatRevision(PKG_VERSION,
            BundleHash(NoMetadata, pair.bundle.proposals, pair.bundle.sessions,
                       pair.bundle.permissions))
    /\ Ok(pair.file) = to_tar_gz(pair.bundle, TRUE)
    /\ ManifestRevision(pair.file) = Revision(pair.bundle)

\* A step that changes the store puts a whole new pair in it: the pair main
\* built at startup or the pair update_bundle built in this tick, and the
\* bundle and the archive change together.
C14_Step ==
    current_bundle' # current_bundle =>
      /\ current_bundle'.some
      /\ SameBuild(current_bundle'.val)
      /\ IF current_bundle.some
         THEN /\ upd_pc = "assign"
              /\ current_bundle' = upd_file
              /\ current_bundle'.val.bundle # current_bundle.val.bundle
              /\ current_bundle'.val.file # current_bundle.val.file
         ELSE main_pc = "fetch_initial" /\ main_pc' = "spawn"

\* C14: after startup the store always holds a complete pair of one build,
\* and it is only ever replaced as a whole, in one step.
C14_StoreInvariant ==
    /\ [](StartedUp => (current_bundle.some /\ SameBuild(current_bundle.val)))
    /\ [][C14_Step]_vars

C14_Witness ==
    /\ upd_pc = "sleep"
    /\ ticks >= 2
    /\ current_bundle.val.bundle.sessions # <<>>

\* C15: every revision and every archive a request returns was in the store
\* at an instant of that request: both belong to pairs the store has held
\* since the request started, none replaced before that.
C15_ReadsAreOfTheStore ==
    \A r \in Requests :
      /\ req[r].etag.some =>
           \E pair \in req[r].during :
             req[r].etag.val.tag = Revision(pair.bundle)
      /\ (Done(r) /\ Status(r) \in {200, 304}) =>
           \E pair \in req[r].during :
             TagHeader(r) = Some(FormatQuoted(Revision(pair.bundle)))
      /\ (Done(r) /\ Status(r) = 200) =>
           \E pair \in req[r].during : Body(r) = pair.file
      /\ req[r].pc \in {"read_revision", "read_file"} =>
           current_bundle.val \in req[r].during

C15_Witness ==
    \E r \in Requests :
      /\ Done(r)
      /\ Status(r) = 200
      /\ Cardinality(req[r].during) = 2
      /\ Body(r) = current_bundle.val.file

\* The data of the bundle whose tag the clients hold.
ClientData == << <<>>, <<>>, <<>> >>

\* A swap to a bundle of other data changes the revision and the archive,
\* and the tag of the pair replaced no longer matches.
C16_Step ==
    (/\ current_bundle.some
     /\ current_bundle' # current_bundle
     /\ Data(current_bundle'.val.bundle) # Data(current_bundle.val.bundle))
    => /\ Revision(current_bundle'.val.bundle) # Revision(current_bundle.val.bundle)
       /\ current_bundle'.val.file # current_bundle.val.file
       /\ ~NotModified(
              IfNoneMatchDecode(Some(<<FormatQuoted(Revision(current_bundle.val.bundle))>>)),
              EndpointETag(current_bundle'.val))

\* A request that presents the tag of data the store has not held since the
\* request started is answered 200, with a tag and an archive of the pairs
\* held since, neither being the tag presented; with one pair held since, the
\* tag and the archive of that pair.
C16_Answered(r) ==
    (/\ Done(r)
     /\ ForBundleEndpoint(r)
     /\ req[r].if_none_match = Some(<<FormatQuoted(ClientRevision)>>)
     /\ \A pair \in req[r].during : Data(pair.bundle) # ClientData)
    => /\ Status(r) = 200
       /\ TagHeader(r) # Some(FormatQuoted(ClientRevision))
       /\ ManifestRevision(Body(r)) # ClientRevision
       /\ \E pair \in req[r].during :
            TagHeader(r) = Some(FormatQuoted(Revision(pair.bundle)))
       /\ \E pair \in req[r].during : Body(r) = pair.file
       /\ \A pair \in req[r].during :
            req[r].during = {pair} =>
              /\ TagHeader(r) = Some(FormatQuoted(Revision(pair.bundle)))
              /\ Body(r) = pair.file

\* C16: a swap to a bundle of data that differs from the data replaced
\* changes the revision, so a request that starts after the swap and
\* presents the tag of the data replaced is answered 200 with the new tag and
\* the new archive, not 304.
C16_CacheInvalidation ==
    /\ [][C16_Step]_vars
    /\ [](\A r \in Requests : C16_Answered(r))

C16_Witness ==
    \E r \in Requests :
      /\ Done(r)
      /\ Status(r) = 200
      /\ req[r].if_none_match = Some(<<FormatQuoted(ClientRevision)>>)
      /\ req[r].during = {current_bundle.val}
      /\ current_bundle.val.bundle.permissions # <<>>
      /\ ticks >= 1
      /\ upd_pc = "sleep"

\* A step of request handling: a request arrives, or a handler goes on or
\* answers.
HandlerStep ==
    \E r \in Requests : req'[r].pc # req[r].pc /\ req'[r].pc # "aborted"

\* The refresher's swap: update_bundle assigns the pair it has built from
\* the bundle its latest fetch returned.
SwapStep ==
    /\ upd_pc = "assign"
    /\ upd_pc' = "sleep"
    /\ writer
    /\ upd_file.some
    /\ last_fetch.val.returned = Ok(upd_file.val.bundle)
    /\ SameBuild(upd_file.val)
    /\ current_bundle' = upd_file

C17_Step ==
    /\ HandlerStep => (current_bundle' = current_bundle /\ writer' = writer)
    /\ (current_bundle.some /\ current_bundle' # current_bundle)
         => (SwapStep /\ ~HandlerStep)
    /\ upd_pc' # upd_pc =>
         IF upd_pc = "unspawned"
         THEN main_pc = "spawn" /\ main_pc' = "join" /\ upd_pc' = "start"
         ELSE upd_pc' # "start"
    /\ main_pc \in {"join", "exited"} => main_pc' \in {"join", "exited"}

\* C17: no step of request handling, whatever the answer, changes the pair
\* in the store or takes the write guard; once the store has a pair, it is
\* changed only by update_bundle's assignment of a pair built from a fetch
\* and a serialization that succeeded; and update_bundle is spawned once.
C17_OnlyTheRefresherWrites == [][C17_Step]_vars

C17_Witness ==
    \E r \in Requests :
      /\ Done(r)
      /\ Status(r) = 304
      /\ upd_pc = "write"
      /\ ticks >= 2
====
